---- MODULE Spec2Model ----
(***************************************************************************)
(* Tamaguchi Garden: the seeded PRNG (utils/prng.ts), the L-system         *)
(* generator (utils/storage.ts), the canvas worker (workers/canvasWorker)  *)
(* and the Garden / PlantCanvas components that feed it.                   *)
(*                                                                         *)
(* JavaScript numbers are modelled exactly where the code relies on them:  *)
(*  - a 32-bit word is a pair <<hi, lo>> of 16-bit halves;                 *)
(*  - a double holding an integer is a sign and four 16-bit limbs          *)
(*    (little-endian), rounded to 53 significant bits after every          *)
(*    multiplication and addition, as IEEE-754 does;                       *)
(*  - a fractional number of days is a fixed-point integer counting        *)
(*    1/DayTicks of a day.                                                 *)
(***************************************************************************)
EXTENDS Integers, Sequences, FiniteSets, TLC

----------------------------------------------------------------------------
(* Bit operations on 16-bit halves and 32-bit words *)

H == 65536

\* a ^ b for a, b < 16
XorNibble(a, b) ==
    ((a + b) % 2) + 2 * (((a \div 2) + (b \div 2)) % 2)
    + 4 * (((a \div 4) + (b \div 4)) % 2) + 8 * (((a \div 8) + (b \div 8)) % 2)

\* a ^ b for a, b < 2^16
Xor16(a, b) ==
    XorNibble(a % 16, b % 16)
    + 16 * XorNibble((a \div 16) % 16, (b \div 16) % 16)
    + 256 * XorNibble((a \div 256) % 16, (b \div 256) % 16)
    + 4096 * XorNibble(a \div 4096, b \div 4096)

\* a | b for a, b < 2^16: a + b = (a ^ b) + 2 (a & b) and a | b = (a ^ b) + (a & b)
Or16(a, b) == (a + b + Xor16(a, b)) \div 2

\* the number of bits of x < 2^16
BitLen(x) == CHOOSE n \in 0..16 : x < 2 ^ n /\ (n = 0 \/ 2 ^ (n - 1) <= x)

XorW(v, w) == <<Xor16(v[1], w[1]), Xor16(v[2], w[2])>>

OrW(v, w) == <<Or16(v[1], w[1]), Or16(v[2], w[2])>>

\* w >>> k for 0 < k < 16
ShrW(w, k) ==
    <<w[1] \div (2 ^ k), (w[2] \div (2 ^ k)) + (w[1] % (2 ^ k)) * (2 ^ (16 - k))>>

\* two's-complement negation modulo 2^32
NegW(w) ==
    IF w[2] = 0 THEN <<(H - w[1]) % H, 0>> ELSE <<(H - 1) - w[1], H - w[2]>>

----------------------------------------------------------------------------
(* Doubles holding integers: [neg, mag], mag = <<l0, l1, l2, l3>> base 2^16 *)

\* ToInt32 of a word read as a signed number: sign and magnitude
Signed(w) ==
    IF w[1] >= 32768
    THEN [neg |-> TRUE, mag |-> <<NegW(w)[2], NegW(w)[1], 0, 0>>]
    ELSE [neg |-> FALSE, mag |-> <<w[2], w[1], 0, 0>>]

\* the product of two 16-bit numbers as <<hi, lo>>
Mul16(a, b) ==
    LET t == a * (b \div 256)
        u == a * (b % 256)
        s == (t % 256) * 256 + u
    IN  <<(t \div 256) + (s \div H), s % H>>

\* the sum of the four partial products of two magnitudes below 2^32
SumProducts(p00, p01, p10, p11) ==
    LET c1 == p00[1] + p01[2] + p10[2]
        c2 == p01[1] + p10[1] + p11[2] + (c1 \div H)
    IN  <<p00[2], c1 % H, c2 % H, p11[1] + (c2 \div H)>>

\* the exact product of two magnitudes below 2^32
MulMag(a, b) ==
    SumProducts(Mul16(a[1], b[1]), Mul16(a[1], b[2]), Mul16(a[2], b[1]), Mul16(a[2], b[2]))

MagBitLen(m) ==
    IF m[4] > 0 THEN 48 + BitLen(m[4])
    ELSE IF m[3] > 0 THEN 32 + BitLen(m[3])
    ELSE IF m[2] > 0 THEN 16 + BitLen(m[2])
    ELSE BitLen(m[1])

\* carry propagation after the lowest limb was changed
Carry(m) ==
    LET c1 == m[2] + (m[1] \div H)
        c2 == m[3] + (c1 \div H)
    IN  <<m[1] % H, c1 % H, c2 % H, m[4] + (c2 \div H)>>

\* round-to-nearest, ties-to-even, dropping the k lowest bits
RoundAt(m, k) ==
    IF k <= 0 THEN m
    ELSE LET r    == m[1] % (2 ^ k)
             half == 2 ^ (k - 1)
             odd  == (m[1] \div (2 ^ k)) % 2 = 1
             up   == r > half \/ (r = half /\ odd)
         IN  Carry(<<m[1] - r + (IF up THEN 2 ^ k ELSE 0), m[2], m[3], m[4]>>)

\* round-to-nearest, ties-to-even, to 53 significant bits
Round53(m) == RoundAt(m, MagBitLen(m) - 53)

MagLess(a, b) ==
    \E i \in 1..4 : a[i] < b[i] /\ \A j \in (i + 1)..4 : a[j] = b[j]

AddMag(a, b) ==
    LET c0 == a[1] + b[1]
        c1 == a[2] + b[2] + (c0 \div H)
        c2 == a[3] + b[3] + (c1 \div H)
    IN  <<c0 % H, c1 % H, c2 % H, a[4] + b[4] + (c2 \div H)>>

\* a - b for magnitudes with b <= a
SubMag(a, b) ==
    LET d0 == a[1] - b[1]
        w0 == IF d0 < 0 THEN 1 ELSE 0
        d1 == a[2] - b[2] - w0
        w1 == IF d1 < 0 THEN 1 ELSE 0
        d2 == a[3] - b[3] - w1
        w2 == IF d2 < 0 THEN 1 ELSE 0
    IN  <<(d0 + H) % H, (d1 + H) % H, (d2 + H) % H, a[4] - b[4] - w2>>

\* x * y in double arithmetic
MulD(x, y) == [neg |-> x.neg # y.neg, mag |-> Round53(MulMag(x.mag, y.mag))]

\* x + y in double arithmetic
AddD(x, y) ==
    IF x.neg = y.neg THEN [neg |-> x.neg, mag |-> Round53(AddMag(x.mag, y.mag))]
    ELSE IF MagLess(x.mag, y.mag)
         THEN [neg |-> y.neg, mag |-> Round53(SubMag(y.mag, x.mag))]
         ELSE [neg |-> x.neg, mag |-> Round53(SubMag(x.mag, y.mag))]

\* ToInt32 / ToUint32 of a double: its value modulo 2^32, as a word
ToWord(x) ==
    IF x.neg THEN NegW(<<x.mag[2], x.mag[1]>>) ELSE <<x.mag[2], x.mag[1]>>

----------------------------------------------------------------------------
(* Mulberry32 (utils/prng.ts).  The state is the number this.state, kept   *)
(* as <<hi, lo>> = hi * 2^16 + lo; hi is not reduced, because the code     *)
(* adds to this.state with += and never truncates it.                      *)

IncHi == 27947   \* 0x6D2B
IncLo == 31221   \* 0x79F5

\* constructor: this.state = seed >>> 0
Mulberry32(seed) == <<seed[1] % H, seed[2]>>

\* let z = (this.state += 0x6D2B79F5)
Advance(state) ==
    <<state[1] + IncHi + ((state[2] + IncLo) \div H), (state[2] + IncLo) % H>>

\* z = (z ^ (z >>> 15)) * (z | 1) on the word z: a double
MixMultiply(z) == MulD(Signed(XorW(z, ShrW(z, 15))), Signed(OrW(z, <<0, 1>>)))

\* z ^= z + (z ^ (z >>> 7)) * (z | 61) on the double z, whose ToInt32 is w
MixAddOf(z, w) ==
    XorW(w, ToWord(AddD(z, MulD(Signed(XorW(w, ShrW(w, 7))), Signed(OrW(w, <<0, 61>>))))))

MixAdd(z) == MixAddOf(z, ToWord(z))

\* (z ^ (z >>> 14)) >>> 0
MixShift(z) == XorW(z, ShrW(z, 14))

\* the value next() returns, as the numerator of value / 2^32, from the
\* state after the addition
Mix(state) == MixShift(MixAdd(MixMultiply(<<state[1] % H, state[2]>>)))

\* next() once this.state has been added to
Drawn(state) == [state |-> state, value |-> Mix(state)]

\* next(): the new state and the value returned
Next32(state) == Drawn(Advance(state))

\* v / 2^32 * n rounded to the nearest integer
ScaleRound(v, n) == (2 * (v[1] * n + ((v[2] * n) \div H)) + H) \div (2 * H)

\* floor(v / 2^32 * n) for a drawn value v and a small positive integer n
ScaleFloor(v, n) == (v[1] * n + ((v[2] * n) \div H)) \div H

\* nextInt(min, max) applied to a drawn value
NextIntOf(v, min, max) == ScaleFloor(v, max - min + 1) + min

----------------------------------------------------------------------------
(* Numbers of days.  ageInDays, the growth stage and settings.iterations   *)
(* are JavaScript numbers that need not be whole: a value counts           *)
(* 1/DayTicks of a day (or of one iteration).                              *)

DayTicks == 2

MaxIterations == 5

Whole(n) == n * DayTicks

IsWhole(x) == x % DayTicks = 0

Min(a, b) == IF a < b THEN a ELSE b

----------------------------------------------------------------------------
(* LSystemGenerator (utils/storage.ts).  A symbol string is a sequence of  *)
(* one-character strings.                                                  *)

\* rule.probability is <<>> when undefined and <<p>> for p tenths
NoProbability == <<>>

FernRules ==
    << [predecessor |-> "X", probability |-> NoProbability,
        successor |-> <<"F","+","[","[","X","]","-","X","]","-","F","[","-","F","X","]","+","X">>],
       [predecessor |-> "F", probability |-> NoProbability, successor |-> <<"F","F">>] >>

BushRules ==
    << [predecessor |-> "X", probability |-> NoProbability,
        successor |-> <<"F","[","+","X","]","[","-","X","]","F","X">>],
       [predecessor |-> "F", probability |-> NoProbability, successor |-> <<"F","F">>] >>

\* the tree-like rules with the last bracket of the X successor left open
TreeRulesUnclosed ==
    << [predecessor |-> "X", probability |-> NoProbability,
        successor |-> <<"F","[","+","X","]","[","-","X","]","[","+","+","X","]",
                        "[","-","-","X","F","X">>],
       [predecessor |-> "F", probability |-> NoProbability, successor |-> <<"F","F">>] >>

TreeRules ==
    << [predecessor |-> "X", probability |-> NoProbability,
        successor |-> <<"F","[","+","X","]","[","-","X","]","[","+","+","X","]","[","-","-","X","]","F","X">>],
       [predecessor |-> "F", probability |-> NoProbability, successor |-> <<"F","F">>] >>

\* probability 0.8 is kept in tenths
RandomRules ==
    << [predecessor |-> "X", probability |-> NoProbability,
        successor |-> <<"[","-","F","X","]","[","+","F","X","]">>],
       [predecessor |-> "F", probability |-> <<8>>, successor |-> <<"F","F">>] >>

\* this.prng.next() < rule.probability, the probability in tenths: the
\* drawn value v / 2^32 is below p / 10 exactly when floor(10 v / 2^32) < p
DrawBelow(v, p) == ScaleFloor(v, 10) < p

\* the inner loop of growString over settings.rules, from rule k on: a
\* stochastic rule whose draw fails does not end the loop
RECURSIVE ApplyRules(_, _, _, _)
\* rule k is stochastic and this.prng.next() has returned drawn.value
ApplyDrawn(char, rules, k, drawn) ==
    IF DrawBelow(drawn.value, rules[k].probability[1])
    THEN [out |-> rules[k].successor, prng |-> drawn.state]
    ELSE ApplyRules(char, rules, k + 1, drawn.state)

\* the rule loop leaving out a symbol that no rule is left for
ApplyRulesDropping(char, rules, k, prng) ==
    IF k > Len(rules) THEN [out |-> <<>>, prng |-> prng]
    ELSE IF rules[k].predecessor # char THEN ApplyRules(char, rules, k + 1, prng)
    ELSE IF rules[k].probability = NoProbability
         THEN [out |-> rules[k].successor, prng |-> prng]
         ELSE ApplyDrawn(char, rules, k, Next32(prng))

ApplyRules(char, rules, k, prng) ==
    IF k > Len(rules) THEN [out |-> <<char>>, prng |-> prng]
    ELSE IF rules[k].predecessor # char THEN ApplyRules(char, rules, k + 1, prng)
    ELSE IF rules[k].probability = NoProbability
         THEN [out |-> rules[k].successor, prng |-> prng]
         ELSE ApplyDrawn(char, rules, k, Next32(prng))

\* the loop over j of growString on result[lo..hi]: the replacements are
\* concatenated in order and the PRNG is handed from left to right (the
\* range is halved only to keep the evaluation depth logarithmic)
RECURSIVE RewriteRange(_, _, _, _, _)
\* the pass over result[lo..hi] made from the last symbol to the first
RECURSIVE RewriteBackward(_, _, _, _, _)
\* the replacements of the left part put before those of the right part,
\* which were made ahead of them
JoinedBefore(left, right) == [out |-> left.out \o right.out, prng |-> left.prng]

\* result[lo..hi] rewritten after the part behind it, right
RewriteBefore(result, lo, hi, rules, right) ==
    JoinedBefore(RewriteBackward(result, lo, hi, rules, right.prng), right)

RewriteBackward(result, lo, hi, rules, prng) ==
    IF lo > hi THEN [out |-> <<>>, prng |-> prng]
    ELSE IF lo = hi THEN ApplyRules(result[lo], rules, 1, prng)
    ELSE CHOOSE r \in {RewriteBefore(result, lo, (lo + hi) \div 2, rules, right) :
                           right \in {RewriteBackward(result, ((lo + hi) \div 2) + 1, hi,
                                                      rules, prng)}} :
             TRUE

\* newResult += ... of the right part after the left part
Joined(left, right) == [out |-> left.out \o right.out, prng |-> right.prng]

\* result[lo..hi] rewritten after the part before it, left
RewriteRest(result, lo, hi, rules, left) ==
    Joined(left, RewriteRange(result, lo, hi, rules, left.prng))

RewriteRange(result, lo, hi, rules, prng) ==
    IF lo > hi THEN [out |-> <<>>, prng |-> prng]
    ELSE IF lo = hi THEN ApplyRules(result[lo], rules, 1, prng)
    ELSE RewriteRest(result, ((lo + hi) \div 2) + 1, hi, rules,
                     RewriteRange(result, lo, (lo + hi) \div 2, rules, prng))

RECURSIVE GrowLoop(_, _, _, _)
\* result = newResult; i++ after the pass over result
GrowNext(i, settings, pass) == GrowLoop(i + 1, pass.out, settings, pass.prng)

\* growString with the loop bound read as i <= iterations
GrowLoopInclusive(i, result, settings, prng) ==
    IF Whole(i) <= settings.iterations
    THEN GrowNext(i, settings, RewriteRange(result, 1, Len(result), settings.rules, prng))
    ELSE [out |-> result, prng |-> prng]

\* the loop over i of growString: for (let i = 0; i < settings.iterations; i++)
GrowLoop(i, result, settings, prng) ==
    IF Whole(i) < settings.iterations
    THEN GrowNext(i, settings, RewriteRange(result, 1, Len(result), settings.rules, prng))
    ELSE [out |-> result, prng |-> prng]

\* growString(settings) on a generator whose PRNG is in state prng: the
\* string returned and the PRNG state left behind
GrowString(settings, prng) == GrowLoop(0, settings.axiom, settings, prng)

\* k more next() calls on a PRNG in state state, after the values acc
RECURSIVE Draws(_, _, _)
DrawsNext(k, acc, drawn) == Draws(k - 1, Append(acc, drawn.value), drawn.state)

Draws(k, acc, state) ==
    IF k = 0 THEN [values |-> acc, state |-> state]
    ELSE DrawsNext(k, acc, Next32(state))

\* the values of twelve successive next() calls on a PRNG in state s0: what
\* generatePlantPreset draws (plant type, the first angle, two reductions,
\* leaf size, three leaf-colour and three stem-colour numbers, the
\* archetype's angle), and the state left behind
TwelveDraws(s0) == Draws(12, <<>>, s0)

\* the seeds plants have in the model, one or more per archetype:
\* 1 is fern-like, 6 bushy, 3 tree-like, 5 and 12345 random-branching
Seeds == {<<0, 1>>, <<0, 3>>, <<0, 5>>, <<0, 6>>, <<0, 12345>>}

\* const localPrng = new Mulberry32(seed) and its draws, for every seed of
\* the model
LocalDraws == [s \in Seeds |-> TwelveDraws(Mulberry32(s)).values]

\* base + nextFloat(min, max) on drawn value v; base, min, max in tenths
Jitter(base, min, max, v) == [base |-> base, min |-> min, max |-> max, draw |-> v]

\* const iterations = Math.min(growthStage, 5)
PresetIterations(growthStage) == Min(growthStage, Whole(MaxIterations))

\* generatePlantPreset(seed, growthStage), given the values d its local PRNG
\* yields for that seed
PresetFrom(d, growthStage) ==
    LET plantType  == NextIntOf(d[1], 0, 3)
        iterations == PresetIterations(growthStage)
        leaf       == Jitter(50, -10, 30, d[5])
    IN  [ axiom |-> IF plantType = 3 THEN <<"F", "X">> ELSE <<"X">>,
          rules |-> CASE plantType = 0 -> FernRules
                      [] plantType = 1 -> BushRules
                      [] plantType = 2 -> TreeRules
                      [] plantType = 3 -> RandomRules,
          angle |-> CASE plantType = 0 -> Jitter(220, -30, 30, d[12])
                      [] plantType = 1 -> Jitter(350, -50, 50, d[12])
                      [] plantType = 2 -> Jitter(300, -50, 50, d[12])
                      [] plantType = 3 -> Jitter(400, -80, 80, d[12]),
          iterations |-> iterations,
          length |-> Whole(10) - iterations,
          lengthReduction |-> Jitter(8, -1, 1, d[3]),
          branchWidthBase |-> 5,
          branchWidthReduction |-> Jitter(7, -1, 1, d[4]),
          leafSize |-> [value |-> leaf, timesTenths |-> IF plantType = 1 THEN 12 ELSE 10],
          leafColor |-> <<100 + NextIntOf(d[6], -20, 20), 60 + NextIntOf(d[7], -20, 10),
                          40 + NextIntOf(d[8], -10, 10)>>,
          stemColor |-> <<25 + NextIntOf(d[9], -10, 10), 50 + NextIntOf(d[10], -20, 10),
                          30 + NextIntOf(d[11], -10, 10)>> ]

\* the plant type generatePlantPreset picks for a seed
PlantType(seed) == NextIntOf(LocalDraws[seed][1], 0, 3)

\* the preset made from the draws of a PRNG, and the state it is left in
PresetOf(drawn, growthStage) ==
    [settings |-> PresetFrom(drawn.values, growthStage), prng |-> drawn.state]

\* generatePlantPreset drawing from the generator's own PRNG, not a local one
GeneratePlantPresetShared(prng, seed, growthStage) ==
    PresetOf(TwelveDraws(prng), growthStage)

\* generatePlantPreset(seed, growthStage) on a generator whose own PRNG is in
\* state prng: the settings returned and the state the own PRNG is left in
GeneratePlantPreset(prng, seed, growthStage) ==
    [settings |-> PresetFrom(LocalDraws[seed], growthStage), prng |-> prng]

----------------------------------------------------------------------------
(* TurtleRenderer.createPath (utils/turtleRenderer.ts).  The turtle's       *)
(* numbers are kept as the operations that produced them, in the order the  *)
(* code applies them, so that no floating-point identity is assumed:        *)
(*   angle    the turns added to -90, each <<sign, settings.angle>>         *)
(*   length   settings.length followed by the factors it was multiplied by, *)
(*            one settings.lengthReduction for every '[' still open         *)
(*   width    settings.branchWidthBase followed by the factors it was       *)
(*            multiplied by, each settings.branchWidthReduction             *)
(*   position the draw steps added to (0, 0), each with the length and the  *)
(*            angle it was made with                                        *)

\* let state = {x: 0, y: 0, angle: -90, length: settings.length,
\* width: settings.branchWidthBase}, the empty stateStack, and the path
\* after path.moveTo(state.x, state.y)
StartPath(settings) ==
    [state |-> [position |-> <<>>, angle |-> <<>>, length |-> <<settings.length>>,
                width |-> <<settings.branchWidthBase>>],
     stateStack |-> <<>>,
     path |-> << [op |-> "moveTo", to |-> <<>>] >>]

\* case 'F': newX, newY from state.length and state.angle, path.lineTo, and
\* the position updated
DrawForward(t) ==
    LET to == Append(t.state.position,
                     [length |-> t.state.length, angle |-> t.state.angle])
    IN  [t EXCEPT !.state.position = to,
                  !.path = Append(t.path, [op |-> "lineTo", to |-> to])]

\* case '+' (sign 1): state.angle += settings.angle; case '-' (sign -1):
\* state.angle -= settings.angle
Turn(t, sign, settings) ==
    [t EXCEPT !.state.angle = Append(t.state.angle, <<sign, settings.angle>>)]

\* case '[' that stores the state after it has been reduced
PushReduced(t, settings) ==
    LET reduced == [t.state EXCEPT
                        !.length = Append(t.state.length, settings.lengthReduction),
                        !.width = Append(t.state.width, settings.branchWidthReduction)]
    IN  [t EXCEPT !.stateStack = Append(t.stateStack, reduced), !.state = reduced]

\* case '[': stateStack.push({...state}); state.length *= lengthReduction;
\* state.width *= branchWidthReduction
PushState(t, settings) ==
    [t EXCEPT !.stateStack = Append(t.stateStack, t.state),
              !.state.length = Append(t.state.length, settings.lengthReduction),
              !.state.width = Append(t.state.width, settings.branchWidthReduction)]

\* stateStack.pop(), path.moveTo(prevState.x, prevState.y), state = prevState
Restore(t, prevState) ==
    [state |-> prevState,
     stateStack |-> SubSeq(t.stateStack, 1, Len(t.stateStack) - 1),
     path |-> Append(t.path, [op |-> "moveTo", to |-> prevState.position])]

\* case ']' that, on an empty stack, goes back to the start of the path
PopOrRestart(t) ==
    IF Len(t.stateStack) > 0 THEN Restore(t, t.stateStack[Len(t.stateStack)])
    ELSE Restore(t, [t.state EXCEPT !.position = <<>>])

\* case ']': if (stateStack.length > 0) {...}
PopState(t) ==
    IF Len(t.stateStack) > 0 THEN Restore(t, t.stateStack[Len(t.stateStack)])
    ELSE t

\* switch (cmd): one command of the string
Command(t, cmd, settings) ==
    CASE cmd = "F" -> DrawForward(t)
      [] cmd = "+" -> Turn(t, 1, settings)
      [] cmd = "-" -> Turn(t, -1, settings)
      [] cmd = "[" -> PushState(t, settings)
      [] cmd = "]" -> PopState(t)
      [] OTHER -> t

\* for (let i = 0; i < lSystemString.length; i++) over the commands lo..hi,
\* in order, starting from t (the range is halved, and the turtle after the
\* first half computed before the second half is entered, only to keep the
\* evaluation depth logarithmic)
RECURSIVE PathLoop(_, _, _, _, _)
PathLoop(lSystemString, lo, hi, t, settings) ==
    IF lo > hi THEN t
    ELSE IF lo = hi THEN Command(t, lSystemString[lo], settings)
    ELSE CHOOSE r \in {PathLoop(lSystemString, ((lo + hi) \div 2) + 1, hi, half, settings) :
                           half \in {PathLoop(lSystemString, lo, (lo + hi) \div 2, t,
                                               settings)}} :
             TRUE

\* createPath(lSystemString, settings): the Path2D returned
CreatePath(lSystemString, settings) ==
    PathLoop(lSystemString, 1, Len(lSystemString), StartPath(settings), settings).path

----------------------------------------------------------------------------
(* State *)

VARIABLES
    \* two Mulberry32 objects and the values each has returned
    streamA, streamB, outA, outB,
    \* the latest nextInt call: its arguments and the value returned
    lastInt,
    \* lSystemGenerator.prng, the generator's own PRNG
    genPrng,
    \* calls made on a generator: how many, one earlier generatePlantPreset
    \* call kept for comparison, and the latest call
    genCalls, refPreset, lastCall,
    \* canvasWorker.ts module state
    canvas, ctx, plants, isVisible, animationFrameId,
    \* turtleRenderer.memoizedPaths, and the number of renderFrame calls made
    \* before the map was last cleared
    memoizedPaths, clearedAt,
    \* the host's frame scheduler: pending callbacks, handles given out
    pending, rafCount,
    \* how many messages of an unrecognized type onmessage has been given
    ignored,
    \* what the worker has done: renderFrame calls, the strokes of the latest
    \* one, the previous plant list and the payload of the latest updatePlants
    renderCalls, frame, prevPlants, lastUpdate,
    \* main thread: Date.now(), the IndexedDB store, Garden's React state, the
    \* lastGrowthUpdate value the debug interval closed over, FocusManager
    now, db, gardenPlants, lastGrowthUpdate, intervalSince, debugEnabled,
    isFocusMode, everFocus,
    \* the message channel from PlantCanvas to the worker
    chan,
    \* one createPath call: lSystemString, settings, how many commands have
    \* been processed, the turtle with its stack and path, and the turtle
    \* states met just before each '[' that no ']' has matched yet
    turtleString, turtleSettings, turtleAt, turtleRun, opened,
    \* drawLSystem calls made on one TurtleRenderer by a caller of its own:
    \* how many, and the latest with the path it stroked
    drawCalls, stroked,
    \* GardenStorage under calls that overlap: the records of the object store
    \* 'plants', its key generator, and the updateAllPlantsGrowthTime call that
    \* has read the plants and not yet written them
    plantStore, keyGen, reading

prngVars == <<streamA, streamB, outA, outB, lastInt>>

genVars == <<genCalls, refPreset, lastCall>>

loopVars == <<canvas, ctx, isVisible, animationFrameId, pending, rafCount>>

drawVars == <<memoizedPaths, clearedAt, renderCalls, frame>>

plantVars == <<plants, prevPlants, lastUpdate>>

gardenVars ==
    <<now, db, gardenPlants, lastGrowthUpdate, intervalSince, debugEnabled,
      isFocusMode, everFocus, chan>>

turtleVars == <<turtleString, turtleSettings, turtleAt, turtleRun, opened>>

rendererVars == <<drawCalls, stroked>>

storageVars == <<plantStore, keyGen, reading>>

\* the createPath call under way, the count of unrecognized messages and the
\* drawLSystem calls of a caller other than renderFrame
restVars == <<turtleVars, ignored, rendererVars, storageVars>>

vars ==
    <<prngVars, genPrng, genVars, loopVars, drawVars, plantVars, gardenVars, restVars>>

\* Date.now() when the worker module was loaded, the seed of lSystemGenerator
GenSeeds == {<<25939, 26624>>, <<25940, 1>>}

IdlePrng ==
    /\ streamA = <<0, 0>>
    /\ streamB = <<0, 0>>
    /\ outA = <<>>
    /\ outB = <<>>
    /\ lastInt = <<>>

IdleGen == genCalls = 0 /\ refPreset = <<>> /\ lastCall = <<>>

\* an empty object store and no call under way
IdleStorage == plantStore = {} /\ keyGen = 0 /\ reading = <<>>

\* no createPath call under way, no drawLSystem call made, the store empty
IdleTurtle ==
    /\ turtleString = <<>>
    /\ turtleSettings = <<>>
    /\ turtleAt = 0
    /\ turtleRun = <<>>
    /\ opened = <<>>
    /\ drawCalls = 0
    /\ stroked = <<>>
    /\ IdleStorage

\* canvasWorker.ts as loaded: lines 32-42
InitWorkerState ==
    /\ canvas = <<>>
    /\ ctx = FALSE
    /\ plants = <<>>
    /\ isVisible = TRUE
    /\ animationFrameId = 0
    /\ memoizedPaths = <<>>
    /\ clearedAt = 0
    /\ pending = {}
    /\ rafCount = 0
    /\ ignored = 0
    /\ renderCalls = 0
    /\ frame = <<>>
    /\ prevPlants = <<>>
    /\ lastUpdate = <<>>

\* Garden.tsx as mounted on an empty store
InitGardenState ==
    /\ now = 0
    /\ db = <<>>
    /\ gardenPlants = <<>>
    /\ lastGrowthUpdate = 0
    /\ intervalSince = 0
    /\ debugEnabled = FALSE
    /\ isFocusMode = FALSE
    /\ everFocus = FALSE
    /\ chan = <<>>

----------------------------------------------------------------------------
(* Two independent Mulberry32 streams *)

PrngSeeds ==
    {<<0, 0>>, <<0, 5>>, <<0, 12345>>, <<65535, 65535>>, <<37588, 32773>>, <<25939, 26624>>}

MaxDraws == 4

InitPrng ==
    /\ \E s \in PrngSeeds : streamA = Mulberry32(s) /\ streamB = Mulberry32(s)
    /\ outA = <<>>
    /\ outB = <<>>
    /\ lastInt = <<>>
    /\ genPrng = <<0, 0>>
    /\ IdleGen
    /\ InitWorkerState
    /\ InitGardenState
    /\ IdleTurtle

\* a.next()
DrawA ==
    /\ Len(outA) < MaxDraws
    /\ streamA' = Next32(streamA).state
    /\ outA' = Append(outA, Next32(streamA).value)
    /\ UNCHANGED <<streamB, outB, lastInt, genPrng, genVars, loopVars, drawVars, plantVars, gardenVars,
                   restVars>>

\* b.next() when the PRNG state is shared by all instances
DrawBShared ==
    /\ Len(outB) < MaxDraws
    /\ streamA' = Next32(streamA).state
    /\ streamB' = Next32(streamA).state
    /\ outB' = Append(outB, Next32(streamA).value)
    /\ UNCHANGED <<outA, lastInt, genPrng, genVars, loopVars, drawVars, plantVars,
                   gardenVars, restVars>>

\* b.next()
DrawB ==
    /\ Len(outB) < MaxDraws
    /\ streamB' = Next32(streamB).state
    /\ outB' = Append(outB, Next32(streamB).value)
    /\ UNCHANGED <<streamA, outA, lastInt, genPrng, genVars, loopVars, drawVars, plantVars, gardenVars,
                   restVars>>

\* the arguments of nextInt: the ranges generatePlantPreset asks for, a
\* single value, a range below zero and a wide one
IntRanges == {<<0, 3>>, <<-20, 20>>, <<-10, 10>>, <<7, 7>>, <<-5, -2>>, <<0, 9999>>}

\* a.nextInt(min, max), which calls this.next() once
NextIntA ==
    /\ Len(outA) < MaxDraws
    /\ streamA' = Next32(streamA).state
    /\ outA' = Append(outA, Next32(streamA).value)
    /\ \E range \in IntRanges :
        lastInt' = << [min |-> range[1], max |-> range[2],
                      value |-> NextIntOf(Next32(streamA).value, range[1], range[2])] >>
    /\ UNCHANGED <<streamB, outB, genPrng, genVars, loopVars, drawVars, plantVars,
                   gardenVars, restVars>>

NextPrng == DrawA \/ DrawB \/ NextIntA

SpecPrng == InitPrng /\ [][NextPrng]_vars

\* C4: two Mulberry32 instances constructed independently with the same seed
\* return identical sequences: whatever each has returned so far, the values
\* at the same position are equal
C4_SameSeedSameSequence ==
    \A i \in 1..Min(Len(outA), Len(outB)) : outA[i] = outB[i]

\* both instances have been drawn from, one further than the other, and the
\* values are not all alike
C4_Witness ==
    /\ Len(outA) = MaxDraws
    /\ Len(outB) >= 2
    /\ Len(outB) < Len(outA)
    /\ outB[1] # outB[2]

\* C16: next() returns a value in [0, 1): its numerator over 2^32 is a 32-bit
\* word; and nextInt(min, max) returns an integer from min to max inclusive
C16_NextIntInRange ==
    /\ \A v \in {outA[i] : i \in DOMAIN outA} \cup {outB[i] : i \in DOMAIN outB} :
           v[1] \in 0..(H - 1) /\ v[2] \in 0..(H - 1)
    /\ \A c \in {lastInt[i] : i \in DOMAIN lastInt} :
           c.value \in c.min..c.max

\* nextInt has returned the upper end of a range of more than one value
C16_Witness ==
    /\ lastInt # <<>>
    /\ lastInt[1].min < lastInt[1].max
    /\ lastInt[1].value = lastInt[1].max

\* C26: the state of a Mulberry32 stays an unsigned 32-bit integer: after
\* construction and after any number of draws this.state lies in 0..2^32 - 1
C26_StateIsUint32 ==
    /\ streamA[1] < H /\ streamA[2] < H
    /\ streamB[1] < H /\ streamB[2] < H

----------------------------------------------------------------------------
(* Calls on one LSystemGenerator *)

MaxCalls == 3

\* growth stages passed by callers: 0, one tick (a fraction of a day) and 2
GenStages == {0, 1, Whole(2)}

\* one seed per archetype
GenCallSeeds == {<<0, 1>>, <<0, 3>>, <<0, 5>>, <<0, 6>>}

InitGen ==
    /\ \E g \in GenSeeds : genPrng = Mulberry32(g)
    /\ IdleGen
    /\ IdlePrng
    /\ InitWorkerState
    /\ InitGardenState
    /\ IdleTurtle

\* generator.generatePlantPreset(seed, stage); one such call is kept as the
\* one later calls are compared with
CallGeneratePlantPreset ==
    /\ genCalls < MaxCalls
    /\ \E seed \in GenCallSeeds, stage \in GenStages, keep \in {refPreset = <<>>, FALSE} :
        LET r    == GeneratePlantPreset(genPrng, seed, stage)
            call == [op |-> "generatePlantPreset", seed |-> seed, stage |-> stage,
                     settings |-> r.settings, out |-> <<>>,
                     before |-> genPrng, after |-> r.prng]
        IN  /\ genPrng' = r.prng
            /\ lastCall' = <<call>>
            /\ refPreset' = IF keep THEN <<call>> ELSE refPreset
    /\ genCalls' = genCalls + 1
    /\ UNCHANGED <<prngVars, loopVars, drawVars, plantVars, gardenVars, restVars>>

\* generator.growString(generator.generatePlantPreset(seed, stage))
CallGrowString ==
    /\ genCalls < MaxCalls
    /\ \E seed \in GenCallSeeds, stage \in GenStages :
        LET s    == GeneratePlantPreset(genPrng, seed, stage)
            r    == GrowString(s.settings, s.prng)
            call == [op |-> "growString", seed |-> seed, stage |-> stage,
                     settings |-> s.settings, out |-> r.out,
                     before |-> s.prng, after |-> r.prng]
        IN  /\ genPrng' = r.prng
            /\ lastCall' = <<call>>
    /\ genCalls' = genCalls + 1
    /\ UNCHANGED <<refPreset, prngVars, loopVars, drawVars, plantVars, gardenVars,
                   restVars>>

\* settings a caller of growString builds itself: two rules for the same
\* predecessor, the first of them stochastic; symbols that no rule matches
\* around one that a rule replaces by a single symbol; and a rule with an
\* empty successor
OwnSettings ==
    { [axiom |-> <<"F">>, iterations |-> Whole(n),
       rules |-> << [predecessor |-> "F", probability |-> <<5>>, successor |-> <<"F", "F">>],
                    [predecessor |-> "F", probability |-> NoProbability,
                     successor |-> <<"F", "+">>] >>] : n \in 1..2 }
    \cup
    { [axiom |-> <<"+", "X", "-">>, iterations |-> Whole(1),
       rules |-> << [predecessor |-> "X", probability |-> NoProbability,
                    successor |-> <<"F">>] >>],
      [axiom |-> <<"F", "X">>, iterations |-> Whole(1),
       rules |-> << [predecessor |-> "X", probability |-> NoProbability,
                    successor |-> <<>>] >>] }

\* generator.growString(settings) on settings of the caller's own; stage -1
\* says that no preset was asked for
CallGrowStringWith ==
    /\ genCalls < MaxCalls
    /\ \E settings \in OwnSettings :
        LET r == GrowString(settings, genPrng)
        IN  /\ genPrng' = r.prng
            /\ lastCall' = << [op |-> "growString", seed |-> <<>>, stage |-> -1,
                               settings |-> settings, out |-> r.out,
                               before |-> genPrng, after |-> r.prng] >>
    /\ genCalls' = genCalls + 1
    /\ UNCHANGED <<refPreset, prngVars, loopVars, drawVars, plantVars, gardenVars,
                   restVars>>

NextGen == CallGeneratePlantPreset \/ CallGrowString \/ CallGrowStringWith

SpecGen == InitGen /\ [][NextGen]_vars

\* C3: generatePlantPreset is deterministic and independent: a call returns
\* the settings an earlier call with the same seed and growth stage returned,
\* whatever the generator's own PRNG has done in between, and it leaves the
\* generator's own PRNG as it found it
C3_PresetDeterministic ==
    \A c \in {lastCall[k] : k \in DOMAIN lastCall} :
        c.op = "generatePlantPreset" =>
            /\ c.after = c.before
            /\ \A r \in {refPreset[k] : k \in DOMAIN refPreset} :
                (r.seed = c.seed /\ r.stage = c.stage) => c.settings = r.settings

\* a preset is generated again for the same seed and stage after growString
\* has drawn from the generator's PRNG
C3_Witness ==
    /\ lastCall # <<>>
    /\ refPreset # <<>>
    /\ lastCall[1].op = "generatePlantPreset"
    /\ lastCall[1].seed = refPreset[1].seed
    /\ lastCall[1].stage = refPreset[1].stage
    /\ lastCall[1].before # refPreset[1].before

\* C25: fixed draw order in generatePlantPreset: after the archetype draw the
\* local PRNG is drawn from for the angle, the length reduction, the width
\* reduction, the leaf size, the three leaf colour numbers and the three
\* stem colour numbers, in that order and with no draw after them, and the
\* angle returned is the one made from the draw at the head of that order
C25_FixedDrawOrder ==
    \A c \in {lastCall[k] : k \in DOMAIN lastCall} :
        c.op = "generatePlantPreset" =>
            LET d == LocalDraws[c.seed]
            IN  /\ c.settings.angle.draw = d[2]
                /\ c.settings.lengthReduction.draw = d[3]
                /\ c.settings.branchWidthReduction.draw = d[4]
                /\ c.settings.leafSize.value.draw = d[5]
                /\ c.settings.leafColor[1] = 100 + NextIntOf(d[6], -20, 20)
                /\ c.settings.stemColor[3] = 30 + NextIntOf(d[11], -10, 10)
                /\ Len(d) = 11

\* C10: growString with zero iterations returns the axiom unchanged and draws
\* nothing from the PRNG; a plant at growth stage 0 is the string FX for
\* archetype 3 and the single symbol X for archetypes 0 to 2
C10_ZeroIterationsAxiom ==
    \A c \in {lastCall[k] : k \in DOMAIN lastCall} :
        c.op = "growString" =>
            /\ c.settings.iterations = 0 =>
                (c.out = c.settings.axiom /\ c.after = c.before)
            /\ c.stage = 0 =>
                c.out = IF PlantType(c.seed) = 3 THEN <<"F", "X">> ELSE <<"X">>

\* growString has been called at stage 0 for an archetype 3 plant, on a
\* generator whose PRNG has already been drawn from
C10_Witness ==
    /\ lastCall # <<>>
    /\ lastCall[1].op = "growString"
    /\ lastCall[1].settings.iterations = 0
    /\ PlantType(lastCall[1].seed) = 3
    /\ \A g \in GenSeeds : lastCall[1].before # Mulberry32(g)

\* the latest call when it is a growString call
GrowCalls == {c \in {lastCall[k] : k \in DOMAIN lastCall} : c.op = "growString"}

\* the first rule whose predecessor is the symbol, as a set: empty when no
\* rule has that predecessor
FirstMatch(rules, symbol) ==
    {k \in DOMAIN rules :
        /\ rules[k].predecessor = symbol
        /\ \A j \in 1..(k - 1) : rules[j].predecessor # symbol}

\* C17: first match wins: when growString makes one pass over a one-symbol
\* axiom, the first rule for that symbol is stochastic and the draw is not
\* below its probability, the symbol comes out unchanged and exactly one
\* draw has been taken, whatever rules follow
C17_FirstMatchWins ==
    \A c \in GrowCalls :
        \A k \in FirstMatch(c.settings.rules, c.settings.axiom[1]) :
            ( /\ Len(c.settings.axiom) = 1
              /\ c.settings.iterations = Whole(1)
              /\ c.settings.rules[k].probability # NoProbability
              /\ ~DrawBelow(Next32(c.before).value, c.settings.rules[k].probability[1]) )
            => (c.out = c.settings.axiom /\ c.after = Next32(c.before).state)

\* how many passes the loop of growString makes for an iteration count
Passes(iterations) == (iterations + DayTicks - 1) \div DayTicks

\* one replacement per symbol of s from symbol j on, in order, appended to
\* acc.out, the draws taken in that order from acc.prng
RECURSIVE ScanPass(_, _, _, _)
ScanNext(s, j, rules, out, step) ==
    ScanPass(s, j + 1, rules, [out |-> out \o step.out, prng |-> step.prng])

ScanPass(s, j, rules, acc) ==
    IF j > Len(s) THEN acc
    ELSE ScanNext(s, j, rules, acc.out, ApplyRules(s[j], rules, 1, acc.prng))

\* k such passes, each over the string the one before has left
RECURSIVE ScanPasses(_, _, _)
ScanPasses(k, rules, acc) ==
    IF k = 0 THEN acc
    ELSE ScanPasses(k - 1, rules,
                    ScanPass(acc.out, 1, rules, [out |-> <<>>, prng |-> acc.prng]))

\* C18: each iteration is one pass from left to right over the string of the
\* iteration before: the result of growString is what comes of replacing
\* each symbol once, in order (a symbol no rule matches by itself), with the
\* draws taken in that order, and doing so again only in the next iteration
C18_LeftToRightPass ==
    \A c \in GrowCalls :
        [out |-> c.out, prng |-> c.after] =
            ScanPasses(Passes(c.settings.iterations), c.settings.rules,
                       [out |-> c.settings.axiom, prng |-> c.before])

\* two passes were made over a string with several stochastic symbols, and
\* draws were taken
C18_Witness ==
    /\ lastCall # <<>>
    /\ lastCall[1].op = "growString"
    /\ lastCall[1].stage = Whole(2)
    /\ PlantType(lastCall[1].seed) = 3
    /\ lastCall[1].after # lastCall[1].before
    /\ Len(lastCall[1].out) > 12

\* the string growString returns when it is given n iterations
GrownTo(c, n) == GrowString([c.settings EXCEPT !.iterations = Whole(n)], c.before).out

\* C19: when no rule has an empty successor, the string is at least as long
\* after iteration n + 1 as after iteration n (after iteration 0 it is the
\* axiom)
C19_LengthNonDecreasing ==
    \A c \in GrowCalls :
        (\A k \in DOMAIN c.settings.rules : c.settings.rules[k].successor # <<>>)
        => \A n \in 0..(Passes(c.settings.iterations) - 1) :
               Len(GrownTo(c, n + 1)) >= Len(GrownTo(c, n))

\* a pass has left the length as it was: every symbol was copied or
\* replaced by one symbol
C19_Witness ==
    /\ lastCall # <<>>
    /\ lastCall[1].op = "growString"
    /\ lastCall[1].settings.axiom = <<"+", "X", "-">>
    /\ lastCall[1].out = <<"+", "F", "-">>

----------------------------------------------------------------------------
(* canvasWorker.ts: the pure parts of updatePlants and renderFrame *)

\* the growth stage taken to be the age itself
GrowthStageUnclamped(ageInDays) == ageInDays

\* const growthStage = Math.min(5, plant.ageInDays)
GrowthStage(ageInDays) == Min(Whole(5), ageInDays)

\* newPlants.map(...) of updatePlants from element i on: a payload element
\* is {id, seed, ageInDays} as PlantCanvas builds it, so settings are always
\* generated; the generator's own PRNG is handed from call to call
RECURSIVE MapPlants(_, _, _, _)
MapPlants(newPlants, i, prng, acc) ==
    IF i > Len(newPlants) THEN [plants |-> acc, prng |-> prng]
    ELSE LET plant == newPlants[i]
             r     == GeneratePlantPreset(prng, plant.seed, GrowthStage(plant.ageInDays))
         IN  MapPlants(newPlants, i + 1, r.prng,
                       Append(acc, [id |-> plant.id, seed |-> plant.seed,
                                    ageInDays |-> plant.ageInDays,
                                    settings |-> r.settings]))

\* updatePlants adding the message's plants to the ones already held
UpdatePlantsAppend(newPlants, prng) == MapPlants(newPlants, 1, prng, plants)

\* updatePlants(newPlants): the new value of plants, and the generator's PRNG
UpdatePlants(newPlants, prng) == MapPlants(newPlants, 1, prng, <<>>)

\* the memoKey of drawLSystem
MemoKey(lSystemString, settings) == <<lSystemString, settings.iterations, settings.angle>>

\* drawLSystem that builds a new path on every call
DrawLSystemRebuild(memo, lSystemString, settings, stamp) ==
    (MemoKey(lSystemString, settings) :> [built |-> stamp, ops |-> CreatePath(lSystemString, settings)])
        @@ memo

\* drawLSystem up to the lookup: the memoizedPaths map after
\* if (!this.memoizedPaths.has(memoKey)) {createPath; set}.  A Path2D is its
\* operations and the renderFrame call, stamp, during which it was created
DrawLSystem(memo, lSystemString, settings, stamp) ==
    IF MemoKey(lSystemString, settings) \in DOMAIN memo THEN memo
    ELSE memo @@ (MemoKey(lSystemString, settings) :>
                      [built |-> stamp, ops |-> CreatePath(lSystemString, settings)])

\* plants.forEach(...) of renderFrame from index i on (index = i - 1): each
\* plant's string is grown on the shared generator, then drawLSystem looks
\* the path up under its memoKey, building it when absent, and strokes it
\* under a translation by the plant's lane (x), to the bottom centre of the
\* canvas (anchor) and by its noise; call holds the time argument of
\* renderFrame, the width of the canvas and the stamp new paths get
RECURSIVE DrawPlants(_, _, _, _, _, _)
\* const x = (index % 3) * (canvas.width / 3) + (canvas.width / 6), for the
\* widths of the model, which are multiples of 6
LaneOffset(index, width) == (index % 3) * (width \div 3) + (width \div 6)

\* ctx.translate(noise * 20, 0) and ctx.stroke(path) on the looked-up path,
\* where noise is simplex(plant.seed / 1000, time / 2000) * 0.5
DrawStroke(list, i, grown, memo, strokes, call) ==
    DrawPlants(list, i + 1, grown.prng, memo,
               Append(strokes, [id |-> list[i].id, seed |-> list[i].seed,
                                iterations |-> list[i].settings.iterations,
                                settings |-> list[i].settings,
                                lane |-> (i - 1) % 3,
                                x |-> LaneOffset(i - 1, call.width),
                                anchor |-> call.width \div 2,
                                width |-> call.width,
                                string |-> grown.out,
                                noise |-> <<list[i].seed, call.time>>,
                                key |-> MemoKey(grown.out, list[i].settings),
                                path |-> memo[MemoKey(grown.out, list[i].settings)]]),
               call)

\* drawLSystem(ctx, lSystemString, plant.settings, noiseX) on the string grown
DrawGrown(list, i, grown, memo, strokes, call) ==
    DrawStroke(list, i, grown,
               DrawLSystem(memo, grown.out, list[i].settings, call.stamp),
               strokes, call)

DrawPlants(list, i, prng, memo, strokes, call) ==
    IF i > Len(list) THEN [prng |-> prng, memo |-> memo, strokes |-> strokes]
    ELSE CHOOSE r \in {DrawGrown(list, i, grown, memo, strokes, call) :
                           grown \in {GrowString(list[i].settings, prng)}} : TRUE

\* renderFrame(time, deltaTime) with a canvas and a context
RenderFrame(list, prng, memo, call) == DrawPlants(list, 1, prng, memo, <<>>, call)

\* clearMemoizedPaths that leaves the map as it is
KeepMemoizedPaths == memoizedPaths

\* clearMemoizedPaths(): this.memoizedPaths.clear()
ClearMemoizedPaths == <<>>

\* the age counted from the last growth update
CalculateAgeSinceGrowth(plant, t) == t - plant.lastGrowthAt

\* calculateAgeInDays of PlantCanvas at time t: (t - createdAt) / one day
CalculateAgeInDays(plant, t) == t - plant.createdAt

\* the payload of the updatePlants message PlantCanvas posts at time t
WorkerPlants(list, t) ==
    [i \in 1..Len(list) |->
        [id |-> list[i].id, seed |-> list[i].seed,
         ageInDays |-> CalculateAgeInDays(list[i], t)]]

----------------------------------------------------------------------------
(* The canvas worker: message handlers and the frame callback.  PlantCanvas *)
(* posts init first and once, and the other messages after it.              *)

MaxFrames == 3

MaxRenders == 2

MaxPlants == 2

CanvasSizes == {[width |-> 300, height |-> 150], [width |-> 600, height |-> 300]}

\* the seed of the plant stored under each key: a stochastic plant (archetype
\* 3) and a bush (archetype 1)
SeedOf(key) == IF key % 2 = 1 THEN <<0, 5>> ELSE <<0, 6>>

\* ageInDays values: 0 and 2 days
AgeInputs == {0, Whole(2)}

\* updatePlants payloads: the store's plants in key order
Payloads ==
    UNION {
        {[i \in 1..k |-> [id |-> i, seed |-> SeedOf(i), ageInDays |-> f[i]]] :
            f \in [1..k -> AgeInputs]} : k \in 0..MaxPlants}

\* Date.now() when this worker was loaded
WorkerSeed == <<25940, 1>>

InitWorker ==
    /\ genPrng = Mulberry32(WorkerSeed)
    /\ InitWorkerState
    /\ IdlePrng
    /\ IdleGen
    /\ InitGardenState
    /\ IdleTurtle

\* startRenderLoop: animationFrameId = requestAnimationFrame(render)
StartRenderLoop ==
    /\ rafCount' = rafCount + 1
    /\ pending' = pending \cup {rafCount + 1}
    /\ animationFrameId' = rafCount + 1

\* the time argument of a frame callback, and performance.now()
FrameTimes == {0, 1}

\* renderFrame(time, deltaTime) as the step's drawing, on the path map memo
\* and on a canvas of size surface
DoRenderFrame(memo, surface) ==
    /\ renderCalls < MaxRenders
    /\ \E time \in FrameTimes :
        LET r == RenderFrame(plants, genPrng, memo,
                             [time |-> time, stamp |-> renderCalls + 1,
                              width |-> surface.width])
        IN  /\ genPrng' = r.prng
            /\ memoizedPaths' = r.memo
            /\ frame' = r.strokes
    /\ renderCalls' = renderCalls + 1

\* initialize(offscreenCanvas, size); acquired tells whether getContext
\* returned a context
Initialize(size, acquired) ==
    /\ canvas' = <<size>>
    /\ ctx' = acquired
    /\ IF acquired THEN StartRenderLoop
       ELSE UNCHANGED <<rafCount, pending, animationFrameId>>

\* message init, the first message PlantCanvas posts
HandleInit ==
    /\ canvas = <<>>
    /\ rafCount < MaxFrames
    /\ \E size \in CanvasSizes, acquired \in BOOLEAN : Initialize(size, acquired)
    /\ UNCHANGED <<isVisible, genPrng, drawVars, plantVars, prngVars, genVars, gardenVars,
                   restVars>>

\* updatePlants(newPlants) and what it leaves in plants
UpdatePlantsWith(newPlants) ==
    LET r == UpdatePlants(newPlants, genPrng)
    IN  /\ plants' = r.plants
        /\ genPrng' = r.prng
        /\ lastUpdate' = <<newPlants>>

\* message updatePlants
HandleUpdatePlants ==
    /\ canvas # <<>>
    /\ \E newPlants \in Payloads : UpdatePlantsWith(newPlants)
    /\ UNCHANGED <<prevPlants, loopVars, drawVars, prngVars, genVars, gardenVars,
                   restVars>>

\* setVisible that stops the loop on false and never starts it again on true
HandleSetVisibleNoRestart ==
    /\ canvas # <<>>
    /\ \E visible \in BOOLEAN :
        /\ isVisible' = visible
        /\ IF ~visible /\ animationFrameId # 0
           THEN /\ pending' = pending \ {animationFrameId}
                /\ animationFrameId' = 0
                /\ UNCHANGED rafCount
           ELSE UNCHANGED <<rafCount, pending, animationFrameId>>
    /\ UNCHANGED <<canvas, ctx, genPrng, drawVars, plantVars, prngVars, genVars, gardenVars,
                   restVars>>

\* setVisible(visible)
SetVisible(visible) ==
    /\ isVisible' = visible
    /\ IF visible /\ animationFrameId = 0
       THEN rafCount < MaxFrames /\ StartRenderLoop
       ELSE IF ~visible /\ animationFrameId # 0
            THEN /\ pending' = pending \ {animationFrameId}
                 /\ animationFrameId' = 0
                 /\ UNCHANGED rafCount
            ELSE UNCHANGED <<rafCount, pending, animationFrameId>>

\* message setVisible
HandleSetVisible ==
    /\ canvas # <<>>
    /\ \E visible \in BOOLEAN : SetVisible(visible)
    /\ UNCHANGED <<canvas, ctx, genPrng, drawVars, plantVars, prngVars, genVars, gardenVars,
                   restVars>>

\* handleResize that sets the size, clears the map and draws whatever the
\* worker holds and whether or not it is visible
ResizeUnguarded(size) ==
    /\ canvas' = <<size>>
    /\ clearedAt' = renderCalls
    /\ DoRenderFrame(ClearMemoizedPaths, size)

\* handleResize(size)
ResizeTo(size) ==
    IF canvas = <<>> \/ ~ctx THEN UNCHANGED <<canvas, genPrng, drawVars>>
    ELSE /\ canvas' = <<size>>
         /\ clearedAt' = renderCalls
         /\ IF isVisible
            THEN DoRenderFrame(ClearMemoizedPaths, size)
            ELSE /\ memoizedPaths' = ClearMemoizedPaths
                 /\ UNCHANGED <<genPrng, renderCalls, frame>>

\* message resize
HandleResize ==
    /\ canvas # <<>>
    /\ \E size \in CanvasSizes : ResizeTo(size)
    /\ UNCHANGED <<ctx, isVisible, animationFrameId, pending, rafCount, plantVars,
                   prngVars, genVars, gardenVars, restVars>>

\* the host runs a pending frame callback: the closure render of
\* startRenderLoop
FrameCallback ==
    /\ rafCount < MaxFrames
    /\ \E handle \in pending :
        /\ IF isVisible /\ ctx /\ canvas # <<>>
           THEN DoRenderFrame(memoizedPaths, canvas[1]) /\ UNCHANGED clearedAt
           ELSE UNCHANGED <<genPrng, drawVars>>
        /\ rafCount' = rafCount + 1
        /\ pending' = (pending \ {handle}) \cup {rafCount + 1}
        /\ animationFrameId' = rafCount + 1
    /\ UNCHANGED <<canvas, ctx, isVisible, plantVars, prngVars, genVars, gardenVars,
                   restVars>>

MaxIgnored == 1

\* a message of an unrecognized type handled like a resize to the size the
\* canvas has
HandleUnknownAsResize ==
    /\ canvas # <<>>
    /\ ignored < MaxIgnored
    /\ ignored' = ignored + 1
    /\ IF ~ctx THEN UNCHANGED <<genPrng, drawVars>>
       ELSE /\ clearedAt' = renderCalls
            /\ IF isVisible
               THEN DoRenderFrame(ClearMemoizedPaths, canvas[1])
               ELSE /\ memoizedPaths' = ClearMemoizedPaths
                    /\ UNCHANGED <<genPrng, renderCalls, frame>>
    /\ UNCHANGED <<loopVars, plantVars, prngVars, genVars, gardenVars, turtleVars,
                   rendererVars, storageVars>>

\* a message whose type is none of init, initWithoutTransfer, updatePlants,
\* setVisible, resize: the switch of onmessage has no case for it and no
\* default
HandleUnknown ==
    /\ canvas # <<>>
    /\ ignored < MaxIgnored
    /\ ignored' = ignored + 1
    /\ UNCHANGED <<genPrng, loopVars, drawVars, plantVars, prngVars, genVars, gardenVars,
                   turtleVars, rendererVars, storageVars>>

Next ==
    \/ HandleInit
    \/ HandleUpdatePlants
    \/ HandleSetVisible
    \/ HandleResize
    \/ FrameCallback
    \/ HandleUnknown

Spec == InitWorker /\ [][Next]_vars

\* C2: identical seed gives identical shape at a given growth stage: a plant
\* drawn on a frame has the same expanded string as any plant with the same
\* seed and iteration count on the frame before it and on the same frame
C2_SameSeedSameString ==
    [][\A j \in DOMAIN frame' :
          \A s \in {frame[i] : i \in DOMAIN frame} \cup {frame'[i] : i \in DOMAIN frame'} :
              (s.seed = frame'[j].seed /\ s.iterations = frame'[j].iterations)
                  => s.string = frame'[j].string]_vars

\* C5: visibility gating: from a state where the worker is not visible no
\* step calls renderFrame (nothing is drawn, whatever frame ticks or resizes
\* come); the step that makes it visible again leaves a frame callback
\* scheduled; and a frame callback run while visible, with a context, calls
\* renderFrame once
C5_VisibilityGating ==
    [][/\ ~isVisible => (renderCalls' = renderCalls /\ frame' = frame)
       /\ (~isVisible /\ isVisible') =>
              (animationFrameId' # 0 /\ animationFrameId' \in pending')
       /\ (FrameCallback /\ isVisible /\ ctx) => renderCalls' = renderCalls + 1]_vars

\* the worker has drawn, was then told it is not visible, and no frame
\* callback is left scheduled
C5_Witness ==
    /\ ~isVisible
    /\ ctx
    /\ renderCalls >= 1
    /\ rafCount >= 2
    /\ pending = {}

\* C6: each updatePlants message is a full replacement snapshot: the plant
\* list has exactly the ids, seeds and order of the last message handled, and
\* each plant's settings are those of generatePlantPreset for its seed and
\* the growth stage of its ageInDays
C6_FullReplacement ==
    /\ lastUpdate = <<>> => plants = <<>>
    /\ \A m \in {lastUpdate[k] : k \in DOMAIN lastUpdate} :
        /\ Len(plants) = Len(m)
        /\ \A i \in DOMAIN m :
            /\ plants[i].id = m[i].id
            /\ plants[i].seed = m[i].seed
            /\ plants[i].settings =
                 GeneratePlantPreset(genPrng, m[i].seed, GrowthStage(m[i].ageInDays)).settings

\* two plants were drawn, and a later message has left one plant, grown
C6_Witness ==
    /\ Len(frame) = 2
    /\ Len(plants) = 1
    /\ lastUpdate # <<>>
    /\ Len(lastUpdate[1]) = 1
    /\ plants[1].settings.iterations = Whole(2)

\* C12: the path cache: while no resize clears it, an entry of the map is
\* never removed, replaced or changed; every stroke of a frame draws the
\* entry stored under its key, whose operations are those of createPath for
\* the stroke's string, whatever the stroke's noise; and a key stroked on two
\* successive frames with no clear in between is stroked with the very same
\* path, built once
C12_PathCache ==
    [][/\ clearedAt' = clearedAt =>
              \A k \in DOMAIN memoizedPaths :
                  k \in DOMAIN memoizedPaths' /\ memoizedPaths'[k] = memoizedPaths[k]
       /\ renderCalls' # renderCalls =>
              \A j \in DOMAIN frame' :
                  /\ frame'[j].path = memoizedPaths'[frame'[j].key]
                  /\ frame'[j].path.ops = CreatePath(frame'[j].string, frame'[j].settings)
                  /\ renderCalls > clearedAt' =>
                         \A i \in DOMAIN frame :
                             frame[i].key = frame'[j].key =>
                                 frame[i].path = frame'[j].path]_vars

\* the second frame strokes, under another noise, a path built during the
\* first
C12_Witness ==
    /\ renderCalls = 2
    /\ clearedAt = 0
    /\ \E j \in DOMAIN frame :
        /\ frame[j].path.built = 1
        /\ frame[j].noise[2] = 1
        /\ frame[j].iterations = Whole(2)

\* C13: a resize handled with a canvas and a context empties the path map
\* before anything else is stroked: every entry of the map, and every path
\* stroked by a frame drawn since the last such resize, was built after it
C13_ResizeInvalidates ==
    /\ \A k \in DOMAIN memoizedPaths : memoizedPaths[k].built > clearedAt
    /\ renderCalls > clearedAt =>
           \A j \in DOMAIN frame : frame[j].path.built > clearedAt

\* a frame was drawn, then a resize came, and a frame drawn since strokes a
\* plant
C13_Witness ==
    /\ clearedAt = 1
    /\ renderCalls = 2
    /\ frame # <<>>

\* C14: when init could not get a drawing context the render loop does not
\* start: as long as the worker has a canvas and no context, no frame
\* callback is pending, whatever messages follow
C14_NoLoopWithoutContext == (canvas # <<>> /\ ~ctx) => pending = {}

\* C15: a message of an unrecognized type is ignored: handling it changes
\* neither the plant list, the visibility flag, the canvas, the context, the
\* pending frame callback nor the path map, and draws nothing
C15_UnknownIgnored ==
    [][ignored' # ignored =>
          UNCHANGED <<plants, isVisible, canvas, ctx, animationFrameId, pending,
                      memoizedPaths, renderCalls, frame, genPrng>>]_vars

\* an unrecognized message was handled by a worker that is visible, has a
\* context, plants and cached paths
C15_Witness ==
    /\ ignored = 1
    /\ ctx
    /\ isVisible
    /\ plants # <<>>
    /\ DOMAIN memoizedPaths # {}

\* the strokes of the latest renderFrame call are those of the plants the
\* worker holds now: the same ids with the same settings, in order
DrawnAsHeld ==
    /\ plants # <<>>
    /\ Len(frame) = Len(plants)
    /\ \A j \in DOMAIN plants :
        frame[j].id = plants[j].id /\ frame[j].settings = plants[j].settings

\* C24: the expanded string is regenerated only on change: a renderFrame
\* call made when the call before it drew the very plants the worker holds,
\* with no resize in between, leaves the generator's PRNG where it was and
\* adds no path to the map
C24_RegeneratedOnlyOnChange ==
    [][(renderCalls' = renderCalls + 1 /\ DrawnAsHeld /\ clearedAt' = clearedAt)
           => (genPrng' = genPrng /\ DOMAIN memoizedPaths' = DOMAIN memoizedPaths)]_vars

----------------------------------------------------------------------------
(* The worker's onmessage under any order of messages: init need not come   *)
(* first, and may come again                                                *)

\* updatePlants payloads: no plant, and three plants just created
AnyOrderPayloads ==
    { <<>>, [i \in 1..3 |-> [id |-> i, seed |-> SeedOf(i), ageInDays |-> 0]] }

\* case 'init'
OnInit ==
    /\ rafCount < MaxFrames
    /\ \E size \in CanvasSizes, acquired \in BOOLEAN : Initialize(size, acquired)
    /\ UNCHANGED <<isVisible, genPrng, drawVars, plantVars, prngVars, genVars, gardenVars,
                   restVars>>

\* case 'updatePlants'
OnUpdatePlants ==
    /\ \E newPlants \in AnyOrderPayloads : UpdatePlantsWith(newPlants)
    /\ UNCHANGED <<prevPlants, loopVars, drawVars, prngVars, genVars, gardenVars,
                   restVars>>

\* case 'setVisible'
OnSetVisible ==
    /\ \E visible \in BOOLEAN : SetVisible(visible)
    /\ UNCHANGED <<canvas, ctx, genPrng, drawVars, plantVars, prngVars, genVars, gardenVars,
                   restVars>>

\* case 'resize'
OnResize ==
    /\ \E size \in CanvasSizes : ResizeTo(size)
    /\ UNCHANGED <<ctx, isVisible, animationFrameId, pending, rafCount, plantVars,
                   prngVars, genVars, gardenVars, restVars>>

NextAnyOrder == OnInit \/ OnUpdatePlants \/ OnSetVisible \/ OnResize \/ FrameCallback

SpecAnyOrder == InitWorker /\ [][NextAnyOrder]_vars

\* C22: the render loop stops scheduling while the surface is not visible:
\* whenever the visibility flag is false no frame callback is pending, and
\* the step that makes the worker visible again leaves exactly one pending
C22_NoCallbackWhileHidden ==
    [][/\ ~isVisible' => pending' = {}
       /\ (~isVisible /\ isVisible') => Cardinality(pending') = 1]_vars

\* C23: there is a single frame callback chain: at most one frame callback
\* is pending, animationFrameId is its handle, and once setVisible(false)
\* has cancelled that handle no callback is left
C23_SingleCallbackChain ==
    /\ Cardinality(pending) <= 1
    /\ pending \subseteq {animationFrameId}
    /\ (~isVisible /\ animationFrameId = 0) => pending = {}

\* C27: a resize message draws nothing while the worker is not visible, and
\* without a canvas and a context it changes neither the canvas size nor the
\* path map, nor does it draw
C27_ResizeDrawsOnlyWhenVisible ==
    [][OnResize =>
          /\ ~isVisible => (renderCalls' = renderCalls /\ frame' = frame)
          /\ (canvas = <<>> \/ ~ctx) =>
                 UNCHANGED <<canvas, memoizedPaths, clearedAt, renderCalls, frame>>]_vars

\* a worker that had drawn plants was resized while not visible: the path
\* map is empty and no frame was drawn since
C27_Witness ==
    /\ ~isVisible
    /\ ctx
    /\ renderCalls >= 1
    /\ clearedAt = renderCalls
    /\ frame # <<>>
    /\ memoizedPaths = <<>>

\* C29: every plant is anchored inside the drawing surface: the horizontal
\* translation under which a plant is stroked, its lane offset plus the
\* translation to the bottom centre, lies within 0..canvas.width
C29_AnchoredInsideSurface ==
    \A j \in DOMAIN frame :
        /\ 0 <= frame[j].x + frame[j].anchor
        /\ frame[j].x + frame[j].anchor <= frame[j].width

----------------------------------------------------------------------------
(* The main thread: Garden, GardenStorage, FocusManager and PlantCanvas.    *)
(* Date.now() takes multiples of one tick (1/DayTicks of a day). Each       *)
(* handler runs to its end before the next one starts.                      *)

MaxGardenPlants == 2

MaxDays == 1

LongAbsence == 100

MaxChan == 1

\* how far Date.now() moves between two events: one tick, or LongAbsence days
ClockSteps == {1, Whole(LongAbsence)}

\* Math.floor(Math.random() * 0xFFFFFFFF)
GardenSeeds == {<<0, 5>>, <<0, 6>>}

\* useState(Date.now()) of lastGrowthUpdate at the first render, which the
\* focus listener registered by the mount effect keeps reading
MountedAt == 0

\* db.add('plants', plant) with keyPath id, autoIncrement
AddPlant(store, plant) ==
    Append(store, [id |-> Len(store) + 1, seed |-> plant.seed,
                   createdAt |-> plant.createdAt, lastGrowthAt |-> plant.lastGrowthAt])

\* updateAllPlantsGrowthTime(timestamp)
UpdateAllPlantsGrowthTime(store, timestamp) ==
    [i \in DOMAIN store |-> [store[i] EXCEPT !.lastGrowthAt = timestamp]]

\* the updatePlants effect of PlantCanvas, run because plants changed
PostUpdatePlants(list) ==
    /\ Len(chan) < MaxChan
    /\ chan' = Append(chan, WorkerPlants(list, now))

\* processFocusTimeGrowth as closed over lastGrowthUpdate = since and
\* debugMode.enabled = debug; both thresholds (100 ms, 60000 ms) are shorter
\* than one tick
ProcessFocusTimeGrowth(since, debug) ==
    LET focusTimeMs == (now - since) * (IF debug THEN 10 ELSE 1)
    IN  IF focusTimeMs < 1
        THEN UNCHANGED <<db, gardenPlants, lastGrowthUpdate, chan>>
        ELSE /\ db' = UpdateAllPlantsGrowthTime(db, now)
             /\ gardenPlants' = db'
             /\ PostUpdatePlants(db')
             /\ lastGrowthUpdate' = now

\* handleFocusModeChange(inFocusMode), the listener of the mount effect
HandleFocusModeChange(inFocusMode) ==
    IF inFocusMode
    THEN /\ lastGrowthUpdate' = now
         /\ UNCHANGED <<db, gardenPlants, chan>>
    ELSE ProcessFocusTimeGrowth(MountedAt, FALSE)

\* the worker draws nothing here: its generator starts from one of the seeds
InitGarden ==
    /\ InitGardenState
    /\ IdleTurtle
    /\ genPrng = Mulberry32(CHOOSE g \in GenSeeds : TRUE)
    /\ InitWorkerState
    /\ IdlePrng
    /\ IdleGen

\* time passes
ClockTick ==
    /\ \E d \in ClockSteps :
        /\ now + d <= Whole(LongAbsence + MaxDays)
        /\ (now + d) % Whole(LongAbsence) <= Whole(MaxDays)
        /\ now' = now + d
    /\ UNCHANGED <<db, gardenPlants, lastGrowthUpdate, intervalSince, debugEnabled,
                   isFocusMode, everFocus, chan>>
    /\ UNCHANGED <<prngVars, genPrng, genVars, loopVars, drawVars, plantVars, restVars>>

\* addRandomPlant
AddRandomPlant ==
    /\ Len(db) < MaxGardenPlants
    /\ \E seed \in GardenSeeds :
        /\ db' = AddPlant(db, [seed |-> seed, createdAt |-> now, lastGrowthAt |-> now])
        /\ gardenPlants' = db'
        /\ PostUpdatePlants(db')
    /\ UNCHANGED <<now, lastGrowthUpdate, intervalSince, debugEnabled, isFocusMode, everFocus>>
    /\ UNCHANGED <<prngVars, genPrng, genVars, loopVars, drawVars, plantVars, restVars>>

\* addFullGrownPlant, offered by the debug controls
AddFullGrownPlant ==
    /\ debugEnabled
    /\ Len(db) < MaxGardenPlants
    /\ \E seed \in GardenSeeds :
        /\ db' = AddPlant(db, [seed |-> seed, createdAt |-> now - Whole(6),
                               lastGrowthAt |-> now])
        /\ gardenPlants' = db'
        /\ PostUpdatePlants(db')
    /\ UNCHANGED <<now, lastGrowthUpdate, intervalSince, debugEnabled, isFocusMode, everFocus>>
    /\ UNCHANGED <<prngVars, genPrng, genVars, loopVars, drawVars, plantVars, restVars>>

\* FocusManager.setFocusMode(inFocusMode), or detection finding a change:
\* notifyListeners passes isFocusMode to the listener
SetFocusMode ==
    /\ \E inFocusMode \in BOOLEAN :
        /\ isFocusMode # inFocusMode
        /\ isFocusMode' = inFocusMode
        /\ everFocus' = (everFocus \/ inFocusMode)
        /\ HandleFocusModeChange(inFocusMode)
    /\ UNCHANGED <<now, intervalSince, debugEnabled>>
    /\ UNCHANGED <<prngVars, genPrng, genVars, loopVars, drawVars, plantVars, restVars>>

\* toggleDebugMode: FocusManager.setDebugMode notifies the listener, with
\* isFocusMode, when isFocusMode || isDebugMode changes; the interval effect
\* then runs with the render's lastGrowthUpdate
ToggleDebugMode ==
    /\ debugEnabled' = ~debugEnabled
    /\ everFocus' = (everFocus \/ ~debugEnabled)
    /\ intervalSince' = IF ~debugEnabled THEN lastGrowthUpdate ELSE intervalSince
    /\ IF ~isFocusMode
       THEN HandleFocusModeChange(FALSE)
       ELSE UNCHANGED <<db, gardenPlants, lastGrowthUpdate, chan>>
    /\ UNCHANGED <<now, isFocusMode>>
    /\ UNCHANGED <<prngVars, genPrng, genVars, loopVars, drawVars, plantVars, restVars>>

\* the setInterval callback of the debug effect
DebugInterval ==
    /\ debugEnabled
    /\ ProcessFocusTimeGrowth(intervalSince, TRUE)
    /\ UNCHANGED <<now, intervalSince, debugEnabled, isFocusMode, everFocus>>
    /\ UNCHANGED <<prngVars, genPrng, genVars, loopVars, drawVars, plantVars, restVars>>

\* the worker takes the next updatePlants message
WorkerHandle ==
    /\ chan # <<>>
    /\ UpdatePlantsWith(Head(chan))
    /\ prevPlants' = plants
    /\ chan' = Tail(chan)
    /\ UNCHANGED <<now, db, gardenPlants, lastGrowthUpdate, intervalSince, debugEnabled,
                   isFocusMode, everFocus>>
    /\ UNCHANGED <<prngVars, genVars, loopVars, drawVars, restVars>>

NextGarden ==
    \/ ClockTick
    \/ AddRandomPlant
    \/ AddFullGrownPlant
    \/ SetFocusMode
    \/ ToggleDebugMode
    \/ DebugInterval
    \/ WorkerHandle

SpecGarden == InitGarden /\ [][NextGarden]_vars

\* C1: the growth stage delivered to the worker rises only because of time
\* spent in focus mode: as long as focus mode (or the debug mode that stands
\* in for it) has never been active, no plant of the latest snapshot has a
\* higher whole growth stage than it had in the snapshot before
C1_GrowsOnlyInFocus ==
    ~everFocus =>
        \A i \in DOMAIN plants, j \in DOMAIN prevPlants :
            plants[i].id = prevPlants[j].id =>
                plants[i].settings.iterations \div DayTicks
                    <= prevPlants[j].settings.iterations \div DayTicks

\* C7: growth-stage clamp ceiling: for every plant of an updatePlants message
\* with ageInDays >= 5 the growth stage and the iteration count of its
\* settings are exactly 5, and no plant has an iteration count above 5
C7_ClampCeiling ==
    /\ \A i \in DOMAIN plants : plants[i].settings.iterations <= Whole(5)
    /\ \A m \in {lastUpdate[k] : k \in DOMAIN lastUpdate} :
        \A i \in DOMAIN m :
            m[i].ageInDays >= Whole(5) =>
                /\ GrowthStage(m[i].ageInDays) = Whole(5)
                /\ plants[i].settings.iterations = Whole(5)

\* a plant at least 100 days old has been delivered, next to one younger
\* than 5 days
C7_Witness ==
    /\ lastUpdate # <<>>
    /\ \E i \in DOMAIN plants :
        /\ lastUpdate[1][i].ageInDays >= Whole(100)
        /\ plants[i].settings.iterations = Whole(5)
    /\ \E i \in DOMAIN plants : lastUpdate[1][i].ageInDays < Whole(5)

\* C8: the growth stage is an integer in [0,5]: the iteration count stored
\* in every plant's settings is a whole number between 0 and 5
C8_IntegerStage ==
    \A i \in DOMAIN plants :
        /\ IsWhole(plants[i].settings.iterations)
        /\ plants[i].settings.iterations >= 0
        /\ plants[i].settings.iterations <= Whole(5)

\* C9: growth stage is monotonically non-decreasing per plant: a plant id
\* present in two successive snapshots has, in the later one, an iteration
\* count at least that of the earlier one (the clock never goes back)
C9_StageMonotonic ==
    \A i \in DOMAIN plants, j \in DOMAIN prevPlants :
        plants[i].id = prevPlants[j].id =>
            plants[i].settings.iterations >= prevPlants[j].settings.iterations

\* a plant has grown from one snapshot to the next, after a growth update
\* rewrote its lastGrowthAt
C9_Witness ==
    /\ \E i \in DOMAIN plants, j \in DOMAIN prevPlants :
        /\ plants[i].id = prevPlants[j].id
        /\ plants[i].settings.iterations > prevPlants[j].settings.iterations
    /\ \E k \in DOMAIN db : db[k].lastGrowthAt > db[k].createdAt

----------------------------------------------------------------------------
(* One createPath call, command by command *)

MaxPathLen == 4

\* settings as a caller of drawLSystem may hand them over: of
\* PlantGenerationSettings the fields drawLSystem's key and createPath read,
\* angles and factors in tenths
DrawSettings ==
    { [iterations |-> Whole(1), angle |-> a, length |-> 9, lengthReduction |-> r,
       branchWidthBase |-> 5, branchWidthReduction |-> 7] :
          a \in {250, 300}, r \in {7, 8} }

\* the characters of an L-system string: the five commands and a symbol that
\* createPath has no case for
Symbols == {"F", "+", "-", "[", "]", "X"}

\* every string of at most MaxPathLen symbols
PathStrings == UNION {[1..n -> Symbols] : n \in 0..MaxPathLen}

\* createPath(lSystemString, settings) is entered
InitTurtle ==
    /\ turtleString \in PathStrings
    /\ turtleSettings \in DrawSettings
    /\ turtleAt = 0
    /\ turtleRun = StartPath(turtleSettings)
    /\ opened = <<>>
    /\ drawCalls = 0
    /\ stroked = <<>>
    /\ IdleStorage
    /\ genPrng = Mulberry32(CHOOSE g \in GenSeeds : TRUE)
    /\ IdlePrng
    /\ IdleGen
    /\ InitWorkerState
    /\ InitGardenState

\* const cmd = lSystemString[i] of the next loop round
Cmd == turtleString[turtleAt + 1]

\* one round of the loop with cmd equal to symbol
Process(symbol) ==
    /\ turtleAt < Len(turtleString)
    /\ Cmd = symbol
    /\ turtleAt' = turtleAt + 1
    /\ turtleRun' = Command(turtleRun, symbol, turtleSettings)
    /\ opened' = CASE symbol = "[" -> Append(opened, turtleRun.state)
                   [] symbol = "]" /\ opened # <<>> -> SubSeq(opened, 1, Len(opened) - 1)
                   [] OTHER -> opened
    /\ UNCHANGED <<turtleString, turtleSettings, prngVars, genPrng, genVars, loopVars,
                   drawVars, plantVars, gardenVars, ignored, rendererVars, storageVars>>

\* the loop round for whichever symbol comes next
NextTurtle == \E symbol \in Symbols : Process(symbol)

SpecTurtle == InitTurtle /\ [][NextTurtle]_vars

\* the lineTo segments of a path
DrawSegments(path) == {k \in DOMAIN path : path[k].op = "lineTo"}

\* C11: a ']' met on an empty stack is a no-op: position, heading, length,
\* width, the stack and the path stay as they are and the loop goes on to the
\* next command; the stack always holds exactly the states of the '[' not yet
\* matched, so a pop never takes more than was pushed; and once "F]F" has
\* been processed its path has two draw segments
C11_PopOnEmptyIsNoOp ==
    [][/\ (Cmd = "]" /\ opened = <<>>) =>
              (turtleRun' = turtleRun /\ turtleAt' = turtleAt + 1)
       /\ Len(turtleRun'.stateStack) = Len(opened')
       /\ (turtleString = <<"F", "]", "F">> /\ turtleAt' = 3) =>
              Cardinality(DrawSegments(turtleRun'.path)) = 2]_vars

\* "F]F" has been processed to its end
C11_Witness ==
    /\ turtleString = <<"F", "]", "F">>
    /\ turtleAt = 3
    /\ turtleRun.stateStack = <<>>
    /\ Cardinality(DrawSegments(turtleRun.path)) = 2

\* C20: '[' stores the turtle state as it is and then reduces length and
\* width once each, leaving position, heading and path alone; a ']' that
\* matches a '[' puts position, heading, length and width back to what they
\* were just before that '[', and adds one moveTo to that position, and no
\* draw segment, to the path
C20_PushPopRoundTrip ==
    [][/\ Cmd = "[" =>
              /\ turtleRun'.stateStack = Append(turtleRun.stateStack, turtleRun.state)
              /\ turtleRun'.state =
                     [turtleRun.state EXCEPT
                          !.length = Append(@, turtleSettings.lengthReduction),
                          !.width = Append(@, turtleSettings.branchWidthReduction)]
              /\ turtleRun'.path = turtleRun.path
       /\ (Cmd = "]" /\ opened # <<>>) =>
              /\ turtleRun'.state = opened[Len(opened)]
              /\ turtleRun'.path =
                     Append(turtleRun.path,
                            [op |-> "moveTo", to |-> opened[Len(opened)].position])]_vars

\* a ']' has just matched a '[' after a draw and a turn inside the bracket
C20_Witness ==
    /\ turtleAt = 4
    /\ turtleString = <<"[", "F", "+", "]">>
    /\ turtleRun.state = StartPath(turtleSettings).state
    /\ turtleRun.stateStack = <<>>

----------------------------------------------------------------------------
(* drawLSystem calls on one TurtleRenderer, with strings and settings of the *)
(* caller's choice                                                          *)

MaxDrawCalls == 3

\* a string without a bracket, and strings that draw inside a bracket
DrawStrings ==
    { <<"F">>, <<"[", "F", "]">>, <<"F", "[", "+", "F", "]", "F">> }

\* a new TurtleRenderer()
InitDraw ==
    /\ genPrng = Mulberry32(WorkerSeed)
    /\ InitWorkerState
    /\ IdlePrng
    /\ IdleGen
    /\ InitGardenState
    /\ IdleTurtle

\* turtleRenderer.drawLSystem(ctx, lSystemString, settings, noise): the
\* lookup, the path built when the key is absent, and the path handed to
\* ctx.stroke
CallDrawLSystem ==
    /\ drawCalls < MaxDrawCalls
    /\ \E lSystemString \in DrawStrings, settings \in DrawSettings :
        /\ memoizedPaths' =
               DrawLSystem(memoizedPaths, lSystemString, settings, drawCalls + 1)
        /\ stroked' = << [string |-> lSystemString, settings |-> settings,
                          path |-> memoizedPaths'[MemoKey(lSystemString, settings)]] >>
    /\ drawCalls' = drawCalls + 1
    /\ UNCHANGED <<clearedAt, renderCalls, frame, genPrng, prngVars, genVars, loopVars,
                   plantVars, gardenVars, turtleVars, ignored, storageVars>>

\* turtleRenderer.clearMemoizedPaths()
CallClearMemoizedPaths ==
    /\ memoizedPaths # <<>>
    /\ memoizedPaths' = ClearMemoizedPaths
    /\ UNCHANGED <<clearedAt, renderCalls, frame, genPrng, prngVars, genVars, loopVars,
                   plantVars, gardenVars, restVars>>

NextDraw == CallDrawLSystem \/ CallClearMemoizedPaths

SpecDraw == InitDraw /\ [][NextDraw]_vars

\* C21: the path is a function of the cache key: the path drawLSystem hands
\* to ctx.stroke, built now or found in the map, has the move and draw
\* operations createPath gives for the string and the settings of this call
C21_PathIsFunctionOfKey ==
    \A k \in DOMAIN stroked :
        stroked[k].path.ops = CreatePath(stroked[k].string, stroked[k].settings)

----------------------------------------------------------------------------
(* GardenStorage: calls whose awaits let other calls run in between *)

MaxKeys == 2

\* the timestamps updateAllPlantsGrowthTime is given
Timestamps == {1, 2}

\* the ids of a set of plant records
Ids(records) == {p.id : p \in records}

\* tx.store.put(plant) for every plant of plants with lastGrowthAt set to
\* timestamp: a record with the same id is replaced, and a record whose id
\* is not in the store is added
PutAll(records, read, timestamp) ==
    {q \in records : q.id \notin Ids(read)}
        \cup {[p EXCEPT !.lastGrowthAt = timestamp] : p \in read}

InitStorage ==
    /\ genPrng = Mulberry32(WorkerSeed)
    /\ InitWorkerState
    /\ IdlePrng
    /\ IdleGen
    /\ InitGardenState
    /\ IdleTurtle

\* addPlant(plant): db.add with the next generated key
StoreAddPlant ==
    /\ keyGen < MaxKeys
    /\ \E seed \in GardenSeeds :
        plantStore' = plantStore \cup {[id |-> keyGen + 1, seed |-> seed,
                                        createdAt |-> 0, lastGrowthAt |-> 0]}
    /\ keyGen' = keyGen + 1
    /\ UNCHANGED <<reading, genPrng, prngVars, genVars, loopVars, drawVars, plantVars,
                   gardenVars, turtleVars, ignored, rendererVars>>

\* deletePlant(id): db.delete
StoreDeletePlant ==
    /\ \E p \in plantStore : plantStore' = plantStore \ {p}
    /\ UNCHANGED <<keyGen, reading, genPrng, prngVars, genVars, loopVars, drawVars,
                   plantVars, gardenVars, turtleVars, ignored, rendererVars>>

\* updateAllPlantsGrowthTime(timestamp) up to the end of
\* await this.getAllPlants()
UpdateRead ==
    /\ reading = <<>>
    /\ \E timestamp \in Timestamps :
        reading' = << [plants |-> plantStore, timestamp |-> timestamp] >>
    /\ UNCHANGED <<plantStore, keyGen, genPrng, prngVars, genVars, loopVars, drawVars,
                   plantVars, gardenVars, turtleVars, ignored, rendererVars>>

\* the rest of updateAllPlantsGrowthTime: the readwrite transaction with one
\* put for every plant read, through await tx.done
UpdateWrite ==
    /\ reading # <<>>
    /\ plantStore' = PutAll(plantStore, reading[1].plants, reading[1].timestamp)
    /\ reading' = <<>>
    /\ UNCHANGED <<keyGen, genPrng, prngVars, genVars, loopVars, drawVars, plantVars,
                   gardenVars, turtleVars, ignored, rendererVars>>

NextStorage == StoreAddPlant \/ StoreDeletePlant \/ UpdateRead \/ UpdateWrite

SpecStorage == InitStorage /\ [][NextStorage]_vars

\* C30: updateAllPlantsGrowthTime changes only lastGrowthAt: when it
\* completes the store holds the ids it held just before the writes, every
\* record has the seed and createdAt it had, and every plant the call read
\* has lastGrowthAt equal to the timestamp
C30_UpdateChangesOnlyGrowthTime ==
    [][(reading # <<>> /\ reading' = <<>>) =>
          /\ Ids(plantStore') = Ids(plantStore)
          /\ \A q \in plantStore : \E r \in plantStore' :
                 r.id = q.id /\ r.seed = q.seed /\ r.createdAt = q.createdAt
          /\ \A p \in reading[1].plants : \E r \in plantStore' :
                 r.id = p.id /\ r.lastGrowthAt = reading[1].timestamp]_vars

----------------------------------------------------------------------------
(* What renderFrame does for one plant, at every growth stage: growString   *)
(* on the plant's preset, then createPath on the string                     *)

MaxGrown == 2

\* the growth stages 0 to 5, in ticks
AllStages == {Whole(n) : n \in 0..MaxIterations}

InitGrown ==
    /\ \E g \in GenSeeds : genPrng = Mulberry32(g)
    /\ InitWorkerState
    /\ IdlePrng
    /\ IdleGen
    /\ InitGardenState
    /\ IdleTurtle

\* growString(plant.settings) on the generator, and createPath on the string
\* it returns: the call as the generator saw it, and the turtle createPath
\* ends with
GrowAndBuild ==
    /\ genCalls < MaxGrown
    /\ \E seed \in GenCallSeeds, stage \in AllStages :
        LET settings == GeneratePlantPreset(genPrng, seed, stage).settings
            grown    == GrowString(settings, genPrng)
        IN  /\ genPrng' = grown.prng
            /\ lastCall' = << [op |-> "growString", seed |-> seed, stage |-> stage,
                               settings |-> settings, out |-> grown.out,
                               before |-> genPrng, after |-> grown.prng] >>
            /\ turtleString' = grown.out
            /\ turtleSettings' = settings
            /\ turtleAt' = Len(grown.out)
            /\ turtleRun' = PathLoop(grown.out, 1, Len(grown.out), StartPath(settings),
                                      settings)
    /\ genCalls' = genCalls + 1
    /\ UNCHANGED <<refPreset, opened, prngVars, loopVars, drawVars, plantVars, gardenVars,
                   ignored, rendererVars, storageVars>>

NextGrown == GrowAndBuild

SpecGrown == InitGrown /\ [][NextGrown]_vars

\* what one symbol adds to the number of open brackets, and the lowest that
\* number gets after it: net and low
ProfileOf(symbol) ==
    CASE symbol = "[" -> [net |-> 1, low |-> 0]
      [] symbol = "]" -> [net |-> -1, low |-> -1]
      [] OTHER -> [net |-> 0, low |-> 0]

\* the same for a string made of two parts
ProfileJoined(left, right) ==
    [net |-> left.net + right.net, low |-> Min(left.low, left.net + right.low)]

\* for s[lo..hi]: the number of '[' less the number of ']', and the lowest
\* value that difference has over the prefixes
RECURSIVE BracketProfile(_, _, _)
BracketProfile(s, lo, hi) ==
    IF lo > hi THEN [net |-> 0, low |-> 0]
    ELSE IF lo = hi THEN ProfileOf(s[lo])
    ELSE ProfileJoined(BracketProfile(s, lo, (lo + hi) \div 2),
                       BracketProfile(s, ((lo + hi) \div 2) + 1, hi))

\* every prefix of s has at least as many '[' as ']', and s has as many
Balanced(s) == BracketProfile(s, 1, Len(s)) = [net |-> 0, low |-> 0]

\* how many operations op the path has
Count(path, op) == Cardinality({k \in DOMAIN path : path[k].op = op})

\* C28: every string growString makes from an archetype preset, at 0 to 5
\* iterations, is bracket-balanced, as are the axiom and every successor of
\* the preset's rules; createPath on it ends with an empty stack, and it has
\* popped for every ']' (one moveTo each, after the first moveTo), so none
\* met an empty stack
C28_PresetStringsBalanced ==
    \A c \in GrowCalls :
        /\ Balanced(c.out)
        /\ Balanced(c.settings.axiom)
        /\ \A k \in DOMAIN c.settings.rules : Balanced(c.settings.rules[k].successor)
        /\ turtleString = c.out
        /\ turtleRun.stateStack = <<>>
        /\ Count(turtleRun.path, "moveTo") =
               1 + Cardinality({k \in DOMAIN c.out : c.out[k] = "]"})

\* the stochastic archetype has been grown to five iterations, with draws
\* taken, and its path built
C28_Witness ==
    /\ lastCall # <<>>
    /\ lastCall[1].stage = Whole(MaxIterations)
    /\ PlantType(lastCall[1].seed) = 3
    /\ lastCall[1].after # lastCall[1].before
    /\ Len(lastCall[1].out) > 100
    /\ turtleRun.stateStack = <<>>
    /\ Count(turtleRun.path, "moveTo") > 10

====
